---- MODULE Spec2Model ----
(***************************************************************************)
(* Model of rpi_metar/sources.py: the METAR source adapters (NOAA,         *)
(* NOAABackup, SkyVector, BOM, IFIS, KO61), the retrying fetch _query and  *)
(* the chunks generator.                                                   *)
(*                                                                         *)
(* One adapter object (or one chunks call) is followed from construction   *)
(* to the end of one get_metar_info call.  The provider, the network and   *)
(* the browser are the environment: their answers are chosen by \E.        *)
(*                                                                         *)
(* Representation.                                                         *)
(*   - an airport code is a string; str.upper() is the table Upper.        *)
(*   - sep.join(list) is the sequence of the list's items with the         *)
(*     separator between neighbours; str.split() is Split.                 *)
(*   - a dict is a function from its keys.                                 *)
(*   - a response body is the record [valid, entries]: valid says whether  *)
(*     the envelope decodes (XML/JSON), entries are the station ids of     *)
(*     the reports it holds, in order (for the HTML adapters: the CODE     *)
(*     groups of the regular expression's successive matches).             *)
(*   - latitudes and longitudes are integers, in tenths of a degree.       *)
(***************************************************************************)
EXTENDS Integers, Sequences, FiniteSets, TLC

VARIABLES
    cls,            \* the class of the object: NOAA, NOAABackup, SkyVector, BOM, IFIS, KO61; "chunks" for a bare chunks(l, n) call
    requested,      \* the constructor's airport_codes argument (for "chunks": l)
    n,              \* the chunk size handed to chunks
    airport_codes,  \* self.airport_codes
    data,           \* SkyVector: self.data, airport code -> <<lat, lon>>
    data_payload,   \* IFIS: self.data_payload['MetLocations']
    url,            \* self.url
    pc,             \* position in the constructor / get_metar_info
    outcome,        \* "running", "returned" (a dict), "returned_none", "raised"
    result,         \* the dict returned to the caller (empty unless outcome = "returned")
    attempt,        \* retrying's attempt_number of the current _query call (0: no call yet)
    failures,       \* failed attempts of the current _query call
    sleeps,         \* the waits (ms) retrying slept in the current _query call
    status,         \* HTTP status of the last response, 0 when there was none
    body,           \* the body of the last response (KO61: entries = the page text's words)
    groups,         \* list(chunks(...)) as far as consumed
    ci,             \* NOAA: number of chunks taken from the generator
    metars,         \* the local dict metars
    nqueries,       \* number of HTTP exchanges started by this call (_query calls, posts)
    browser         \* KO61: "none", "open", "closed"

vars == <<cls, requested, n, airport_codes, data, data_payload, url, pc, outcome,
          result, attempt, failures, sleeps, status, body, groups, ci, metars,
          nqueries, browser>>

----------------------------------------------------------------------------
(* Bounds of the model *)

MaxCodes == 2        \* longest airport_codes list handed to SkyVector, BOM, IFIS
MaxEntries == 2      \* most reports in one response body
MaxFullChunks == 2   \* NOAA lists hold up to this many full chunks ...
MaxExtra == 1        \* ... plus up to this many further codes
MaxLen == 4          \* longest l of a bare chunks(l, n) call
MaxN == 4            \* largest n of a bare chunks(l, n) call
MaxWords == 2        \* most words in the text of KO61's #OfficialObs element

(* Program constants *)

NOAA_CHUNK == 250                      \* chunks(self.airport_codes, 250)
wait_exponential_multiplier == 1000
wait_exponential_max == 10000
stop_max_attempt_number == 10

----------------------------------------------------------------------------
(* Generic helpers *)

Min(a, b) == IF a <= b THEN a ELSE b

RECURSIVE Pow2(_)
Pow2(k) == IF k = 0 THEN 1 ELSE 2 * Pow2(k - 1)

SeqsUpTo(S, k) == UNION {[1..m -> S] : m \in 0..k}

Range(s) == {s[i] : i \in DOMAIN s}

EmptyMap == [x \in {} |-> x]

MapPut(m, k, v) == [x \in DOMAIN m \cup {k} |-> IF x = k THEN v ELSE m[x]]

\* str.upper() on the codes of the model
Upper(c) ==
    CASE c = "kden" -> "KDEN"
      [] c = "kjfk" -> "KJFK"
      [] c = "nzwn" -> "NZWN"
      [] OTHER -> c

\* sep.join(items)
Join(items, sep) ==
    [i \in 1..(2 * Len(items) - 1) |->
        IF i % 2 = 1 THEN items[(i + 1) \div 2] ELSE sep]

\* the items of a joined string: what the provider reads back from it
Split(joined, sep) == SelectSeq(joined, LAMBDA x : x # sep)

----------------------------------------------------------------------------
(* chunks(l, n): for i in range(0, len(l), n): yield l[i:i + n] *)

\* l[i:j] for 0 <= i <= j (Python clamps j to len(l))
Slice(l, i, j) == SubSeq(l, i + 1, Min(j, Len(l)))

RECURSIVE chunks_from(_, _, _)
chunks_from(l, k, i) ==
    IF i >= Len(l) THEN <<>>
    ELSE <<Slice(l, i, i + k)>> \o chunks_from(l, k, i + k)

\* faulty variant, for mutation analysis: the last, shorter group is never yielded
chunks_full_only(l, k) == chunks_from(SubSeq(l, 1, Len(l) - (Len(l) % k)), k, 0)

chunks(l, k) == chunks_from(l, k, 0)

----------------------------------------------------------------------------
(* The values the environment and the caller can supply *)

\* airport codes a caller may hand to SkyVector, BOM and IFIS
CodePool == {"KDEN", "kden", "NZWN", "nzwn", "NZAA", "YBBN"}

\* station ids a provider may put in a response
StationPool == {"KDEN", "kden", "KORD"}

\* words of the text of KO61's #OfficialObs element
WordPool == {"METAR", "KO61", "AUTO"}

\* HTTP statuses a provider may answer with
Statuses == {200, 404, 503}

\* the list handed to NOAA / NOAABackup: long enough to need several chunks
CodeCycle == <<"KDEN", "kjfk", "KSFO">>

NOAAList(len) == [i \in 1..len |-> CodeCycle[((i - 1) % Len(CodeCycle)) + 1]]

NOAALengths == {k * NOAA_CHUNK + e : k \in 0..MaxFullChunks, e \in 0..MaxExtra}

Bodies ==
    {[valid |-> FALSE, entries |-> <<>>]}
        \cup {[valid |-> TRUE, entries |-> e] : e \in SeqsUpTo(StationPool, MaxEntries)}

PageTexts ==
    {[valid |-> FALSE, entries |-> <<>>]}
        \cup {[valid |-> TRUE, entries |-> e] : e \in SeqsUpTo(WordPool, MaxWords)}

NoBody == [valid |-> FALSE, entries |-> <<>>]

\* data/us-airports.csv: rows of airport code, latitude, longitude
Dataset ==
    << <<"KDEN", 398, -1047>>, <<"KJFK", 406, -738>>, <<"KSFO", 376, -1224>> >>

ACCEPTED_CODES ==
    {"NZCH", "NZCI", "NZAA", "NZDN", "NZGS", "NZHN", "NZHK", "NZNV", "NZKK",
     "NZMS", "NZMF", "NZNR", "NZNS", "NZNP", "NZOU", "NZOH", "NZPM", "NZPP",
     "NZQN", "NZRO", "NZAP", "NZTG", "NZMO", "NZTU", "NZWF", "NZWN", "NZWS",
     "NZWK", "NZWU", "NZWR", "NZWP", "NZWB"}

----------------------------------------------------------------------------
(* METARSource._query under                                                *)
(*   @retry(wait_exponential_multiplier=1000, wait_exponential_max=10000,  *)
(*          stop_max_attempt_number=10)                                    *)
(* retrying's loop: attempt_number = 1; call; on an exception, if          *)
(* stop(attempt_number) re-raise it, else sleep wait(attempt_number) and   *)
(* attempt_number += 1.                                                    *)

\* response.raise_for_status() raises for 4xx and 5xx
raise_for_status(st) == st >= 400 /\ st < 600

\* faulty variant, for mutation analysis: stops one attempt late
should_stop_late(attempt_number) == attempt_number > stop_max_attempt_number

\* retrying: stop_after_attempt
should_stop(attempt_number) == attempt_number >= stop_max_attempt_number

\* faulty variant, for mutation analysis: the schedule that starts at the multiplier itself
exponential_sleep_from_one(previous_attempt_number) ==
    Min(wait_exponential_multiplier * Pow2(previous_attempt_number - 1),
        wait_exponential_max)

\* retrying: exponential_sleep: exp = 2 ** previous_attempt_number;
\* result = multiplier * exp, capped at wait_exponential_max
exponential_sleep(previous_attempt_number) ==
    LET exp == Pow2(previous_attempt_number)
        res == wait_exponential_multiplier * exp
    IN  IF res > wait_exponential_max THEN wait_exponential_max ELSE res

\* entering self._query(): the first attempt is about to be made
query_call ==
    /\ attempt' = 1
    /\ failures' = 0
    /\ sleeps' = <<>>
    /\ nqueries' = nqueries + 1

\* an attempt whose requests.get returns and whose status passes raise_for_status
query_attempt_ok ==
    /\ pc = "query"
    /\ \E st \in Statuses, b \in Bodies :
        /\ ~raise_for_status(st)
        /\ status' = st
        /\ body' = b
    /\ pc' = "parse"
    /\ UNCHANGED <<cls, requested, n, airport_codes, data, data_payload, url, outcome,
                   result, attempt, failures, sleeps, groups, ci, metars,
                   nqueries, browser>>

\* an attempt that raises: a transport failure (status 0) or raise_for_status
query_attempt_fail ==
    /\ pc = "query"
    /\ \E st \in Statuses \cup {0} :
        /\ st = 0 \/ raise_for_status(st)
        /\ status' = st
    /\ failures' = failures + 1
    /\ body' = NoBody
    /\ IF should_stop(attempt)
       THEN /\ pc' = "fetch_raised"
            /\ outcome' = "raised"
            /\ UNCHANGED <<attempt, sleeps>>
       ELSE /\ sleeps' = Append(sleeps, exponential_sleep(attempt))
            /\ attempt' = attempt + 1
            /\ UNCHANGED <<pc, outcome>>
    /\ UNCHANGED <<cls, requested, n, airport_codes, data, data_payload, url,
                   result, groups, ci, metars, nqueries, browser>>

----------------------------------------------------------------------------
(* Construction *)

Init ==
    /\ \/ /\ cls = "chunks"
          /\ requested \in SeqsUpTo({"KDEN", "KJFK"}, MaxLen)
          /\ n \in 1..MaxN
       \/ /\ cls \in {"NOAA", "NOAABackup"}
          /\ requested \in {NOAAList(len) : len \in NOAALengths}
          /\ n = NOAA_CHUNK
       \/ /\ cls \in {"SkyVector", "BOM", "IFIS"}
          /\ requested \in SeqsUpTo(CodePool, MaxCodes)
          /\ n = 0
       \/ /\ cls = "KO61"
          /\ requested = <<>>
          /\ n = 0
    /\ airport_codes = <<>>
    /\ data = EmptyMap
    /\ data_payload = <<>>
    /\ url = <<>>
    /\ pc = "new"
    /\ outcome = "running"
    /\ result = EmptyMap
    /\ attempt = 0
    /\ failures = 0
    /\ sleeps = <<>>
    /\ status = 0
    /\ body = NoBody
    /\ groups = <<>>
    /\ ci = 0
    /\ metars = EmptyMap
    /\ nqueries = 0
    /\ browser = "none"

\* NOAA.__init__ (subdomain 'www') and NOAABackup.__init__ (subdomain 'bcaws')
NOAA_init ==
    /\ pc = "new"
    /\ cls \in {"NOAA", "NOAABackup"}
    /\ airport_codes' = requested
    /\ pc' = "ready"
    /\ UNCHANGED <<cls, requested, n, data, data_payload, url, outcome, result,
                   attempt, failures, sleeps, status, body, groups, ci, metars,
                   nqueries, browser>>

subdomain == IF cls = "NOAABackup" THEN "bcaws" ELSE "www"

\* SkyVector._find_coordinates: the rows whose code is in self.airport_codes
find_data(codes) ==
    LET rows == {i \in DOMAIN Dataset : Dataset[i][1] \in Range(codes)}
    IN  [c \in {Dataset[i][1] : i \in rows} |->
            LET i == CHOOSE j \in rows :
                        /\ Dataset[j][1] = c
                        /\ \A m \in rows : Dataset[m][1] = c => m <= j
            IN  <<Dataset[i][2], Dataset[i][3]>>]

MinOf(S) == CHOOSE x \in S : \A y \in S : x <= y
MaxOf(S) == CHOOSE x \in S : \A y \in S : x >= y

\* min() of an empty generator raises ValueError
find_fails(codes, d) == DOMAIN d = {}

\* lat1, lon1, lat2, lon2 of SkyVector.URL: the box of the rows found, 0.5 wider
bounding_box(d) ==
    LET lats == {d[c][1] : c \in DOMAIN d}
        lons == {d[c][2] : c \in DOMAIN d}
    IN  <<MinOf(lats) - 5, MinOf(lons) - 5, MaxOf(lats) + 5, MaxOf(lons) + 5>>

\* SkyVector.__init__: upper-case the codes, then _find_coordinates
SkyVector_init ==
    /\ pc = "new"
    /\ cls = "SkyVector"
    /\ LET codes == [i \in DOMAIN requested |-> Upper(requested[i])]
           d == find_data(codes)
       IN  /\ airport_codes' = codes
           /\ data' = d
           /\ IF find_fails(codes, d)
              THEN /\ pc' = "ctor_raised"
                   /\ outcome' = "raised"
                   /\ url' = url
              ELSE /\ pc' = "ready"
                   /\ outcome' = outcome
                   /\ url' = bounding_box(d)
    /\ UNCHANGED <<cls, requested, n, data_payload, result, attempt, failures,
                   sleeps, status, body, groups, ci, metars, nqueries, browser>>

\* BOM.__init__: self.airport_codes = ','.join(airport_codes)
BOM_init ==
    /\ pc = "new"
    /\ cls = "BOM"
    /\ airport_codes' = Join(requested, ",")
    /\ pc' = "ready"
    /\ UNCHANGED <<cls, requested, n, data, data_payload, url, outcome, result,
                   attempt, failures, sleeps, status, body, groups, ci, metars,
                   nqueries, browser>>

\* faulty variant, for mutation analysis: every requested code goes into the payload
accepted_all(codes) == codes

\* IFIS.__init__: [code for code in airport_codes if code in IFIS.ACCEPTED_CODES]
accepted(codes) == SelectSeq(codes, LAMBDA code : code \in ACCEPTED_CODES)

\* IFIS.__init__: the joined accepted codes are data_payload['MetLocations']
IFIS_init ==
    /\ pc = "new"
    /\ cls = "IFIS"
    /\ airport_codes' = Join(accepted(requested), " ")
    /\ data_payload' = airport_codes'
    /\ pc' = "ready"
    /\ UNCHANGED <<cls, requested, n, data, url, outcome, result,
                   attempt, failures, sleeps, status, body, groups, ci, metars,
                   nqueries, browser>>

\* KO61 has no constructor of its own
KO61_init ==
    /\ pc = "new"
    /\ cls = "KO61"
    /\ pc' = "ready"
    /\ UNCHANGED <<cls, requested, n, airport_codes, data, data_payload, url,
                   outcome, result, attempt, failures, sleeps, status, body,
                   groups, ci, metars, nqueries, browser>>

\* list(chunks(l, n)) on its own
chunks_call ==
    /\ pc = "new"
    /\ cls = "chunks"
    /\ groups' = chunks(requested, n)
    /\ pc' = "done"
    /\ outcome' = "returned"
    /\ UNCHANGED <<cls, requested, n, airport_codes, data, data_payload, url,
                   result, attempt, failures, sleeps, status, body, ci, metars,
                   nqueries, browser>>

----------------------------------------------------------------------------
(* NOAA.get_metar_info (NOAABackup inherits it) *)

\* metars = {} and the generator chunks(self.airport_codes, 250) is created
NOAA_get_metar_info ==
    /\ pc = "ready"
    /\ cls \in {"NOAA", "NOAABackup"}
    /\ metars' = EmptyMap
    /\ groups' = chunks(airport_codes, n)
    /\ ci' = 0
    /\ pc' = "loop"
    /\ UNCHANGED <<cls, requested, n, airport_codes, data, data_payload, url,
                   outcome, result, attempt, failures, sleeps, status, body,
                   nqueries, browser>>

\* the for loop takes the next chunk: self.url is set and self._query() entered
NOAA_next_chunk ==
    /\ pc = "loop"
    /\ ci < Len(groups)
    /\ ci' = ci + 1
    /\ url' = <<subdomain, Join(groups[ci + 1], ",")>>
    /\ query_call
    /\ pc' = "query"
    /\ UNCHANGED <<cls, requested, n, airport_codes, data, data_payload, outcome,
                   result, status, body, groups, metars, browser>>

\* for m in response: metars[m['station_id'].upper()] = m
RECURSIVE put_entries(_, _)
put_entries(m, entries) ==
    IF entries = <<>> THEN m
    ELSE put_entries(MapPut(m, Upper(entries[1]),
                            [station_id |-> entries[1], raw_text |-> entries[1]]),
                     Tail(entries))

\* parsexml(...)['response']['data']['METAR'] raises on an envelope that does not
\* decode and on one that holds no METAR element
NOAA_parse_fails(b) == ~b.valid \/ b.entries = <<>>

\* faulty variant, for mutation analysis: a chunk whose response does not parse is skipped
NOAA_parse_skip ==
    /\ pc = "parse"
    /\ cls \in {"NOAA", "NOAABackup"}
    /\ metars' = IF NOAA_parse_fails(body) THEN metars ELSE put_entries(metars, body.entries)
    /\ pc' = "loop"
    /\ UNCHANGED <<cls, requested, n, airport_codes, data, data_payload, url,
                   outcome, result, attempt, failures, sleeps, status, body,
                   groups, ci, nqueries, browser>>

\* the try block after self._query() returned, the sleep of its finally clause
\* (time.sleep(1.0), no state) and the loop over the entries
NOAA_parse ==
    /\ pc = "parse"
    /\ cls \in {"NOAA", "NOAABackup"}
    /\ IF NOAA_parse_fails(body)
       THEN /\ pc' = "parse_raised"
            /\ outcome' = "raised"
            /\ metars' = metars
       ELSE /\ pc' = "loop"
            /\ outcome' = outcome
            /\ metars' = put_entries(metars, body.entries)
    /\ UNCHANGED <<cls, requested, n, airport_codes, data, data_payload, url,
                   result, attempt, failures, sleeps, status, body,
                   groups, ci, nqueries, browser>>

\* the generator is exhausted: return metars
NOAA_return ==
    /\ pc = "loop"
    /\ ci = Len(groups)
    /\ result' = metars
    /\ outcome' = "returned"
    /\ pc' = "done"
    /\ UNCHANGED <<cls, requested, n, airport_codes, data, data_payload, url,
                   attempt, failures, sleeps, status, body, groups, ci, metars,
                   nqueries, browser>>

----------------------------------------------------------------------------
(* SkyVector.get_metar_info *)

SkyVector_get_metar_info ==
    /\ pc = "ready"
    /\ cls = "SkyVector"
    /\ query_call
    /\ pc' = "query"
    /\ UNCHANGED <<cls, requested, n, airport_codes, data, data_payload, url,
                   outcome, result, status, body, groups, ci, metars, browser>>

\* for item in data: if item['s'] in self.airport_codes:
\*     metars[item['s'].upper()] = {'raw_text': item['m']}
RECURSIVE put_requested(_, _, _)
put_requested(m, entries, codes) ==
    IF entries = <<>> THEN m
    ELSE put_requested(IF entries[1] \in Range(codes)
                       THEN MapPut(m, Upper(entries[1]), [raw_text |-> entries[1]])
                       ELSE m,
                       Tail(entries), codes)

\* response.json()['weather'], then the filtering loop and return metars
SkyVector_parse ==
    /\ pc = "parse"
    /\ cls = "SkyVector"
    /\ IF ~body.valid
       THEN /\ pc' = "parse_raised"
            /\ outcome' = "raised"
            /\ UNCHANGED <<metars, result>>
       ELSE /\ pc' = "done"
            /\ outcome' = "returned"
            /\ metars' = put_requested(EmptyMap, body.entries, airport_codes)
            /\ result' = metars'
    /\ UNCHANGED <<cls, requested, n, airport_codes, data, data_payload, url,
                   attempt, failures, sleeps, status, body, groups, ci,
                   nqueries, browser>>

----------------------------------------------------------------------------
(* BOM.get_metar_info and IFIS.get_metar_info: requests.post, not _query *)

\* for match in matches: metars[info['CODE'].upper()] = {'raw_text': info['METAR']}
RECURSIVE put_matches(_, _)
put_matches(m, entries) ==
    IF entries = <<>> THEN m
    ELSE put_matches(MapPut(m, Upper(entries[1]), [raw_text |-> entries[1]]),
                     Tail(entries))

\* r = requests.post(self.URL, data=payload): one exchange, no raise_for_status;
\* then re.finditer over r.text whatever the status
BOM_get_metar_info ==
    /\ pc = "ready"
    /\ cls = "BOM"
    /\ nqueries' = nqueries + 1
    /\ attempt' = 1
    /\ \/ /\ status' = 0                 \* requests.post raises
          /\ failures' = failures + 1
          /\ pc' = "fetch_raised"
          /\ outcome' = "raised"
          /\ UNCHANGED <<body, metars, result>>
       \/ /\ \E st \in Statuses, b \in Bodies :
                /\ status' = st
                /\ body' = b
                /\ metars' = put_matches(EmptyMap, b.entries)
          /\ result' = metars'
          /\ pc' = "done"
          /\ outcome' = "returned"
          /\ UNCHANGED failures
    /\ UNCHANGED <<cls, requested, n, airport_codes, data, data_payload, url,
                   sleeps, groups, ci, browser>>

\* with requests.Session() as session: the login post, then the data post;
\* neither status is looked at
IFIS_get_metar_info ==
    /\ pc = "ready"
    /\ cls = "IFIS"
    /\ attempt' = 1
    /\ \/ /\ status' = 0                 \* the login post raises
          /\ nqueries' = nqueries + 1
          /\ failures' = failures + 1
          /\ pc' = "fetch_raised"
          /\ outcome' = "raised"
          /\ UNCHANGED <<body, metars, result>>
       \/ /\ status' = 0                 \* the data post raises
          /\ nqueries' = nqueries + 2
          /\ failures' = failures + 1
          /\ pc' = "fetch_raised"
          /\ outcome' = "raised"
          /\ UNCHANGED <<body, metars, result>>
       \/ /\ \E st \in Statuses, b \in Bodies :
                /\ status' = st
                /\ body' = b
                /\ metars' = put_matches(EmptyMap, b.entries)
          /\ nqueries' = nqueries + 2
          /\ result' = metars'
          /\ pc' = "done"
          /\ outcome' = "returned"
          /\ UNCHANGED failures
    /\ UNCHANGED <<cls, requested, n, airport_codes, data, data_payload, url,
                   sleeps, groups, ci, browser>>

----------------------------------------------------------------------------
(* KO61.get_metar_info: a coroutine; each await is a step *)

\* browser = await launch(...): before the try statement
KO61_launch ==
    /\ pc = "ready"
    /\ cls = "KO61"
    /\ \/ /\ browser' = "open"
          /\ pc' = "newPage"
          /\ UNCHANGED outcome
       \/ /\ pc' = "launch_raised"        \* launch raises: no browser exists
          /\ outcome' = "raised"
          /\ UNCHANGED browser
    /\ UNCHANGED <<cls, requested, n, airport_codes, data, data_payload, url,
                   result, attempt, failures, sleeps, status, body, groups, ci,
                   metars, nqueries>>

\* page = await browser.newPage(): still before the try statement, so an
\* exception leaves the coroutine without reaching the finally clause
KO61_newPage ==
    /\ pc = "newPage"
    /\ \/ /\ pc' = "goto"
          /\ UNCHANGED outcome
       \/ /\ pc' = "newPage_raised"
          /\ outcome' = "raised"
    /\ UNCHANGED <<cls, requested, n, airport_codes, data, data_payload, url,
                   result, attempt, failures, sleeps, status, body, groups, ci,
                   metars, nqueries, browser>>

\* await page.goto(self.URL); await asyncio.sleep(1)
KO61_goto ==
    /\ pc = "goto"
    /\ nqueries' = nqueries + 1
    /\ \/ pc' = "waitForSelector"
       \/ pc' = "finally_none"            \* except Exception: return None
    /\ UNCHANGED <<cls, requested, n, airport_codes, data, data_payload, url,
                   outcome, result, attempt, failures, sleeps, status, body,
                   groups, ci, metars, browser>>

\* metar_element = await page.waitForSelector('#OfficialObs')
KO61_waitForSelector ==
    /\ pc = "waitForSelector"
    /\ \/ pc' = "evaluate"
       \/ pc' = "finally_none"
    /\ UNCHANGED <<cls, requested, n, airport_codes, data, data_payload, url,
                   outcome, result, attempt, failures, sleeps, status, body,
                   groups, ci, metars, nqueries, browser>>

\* full_metar = await page.evaluate('(element) => element.textContent', ...)
\* (a text that is not a string is the body with valid = FALSE)
KO61_evaluate ==
    /\ pc = "evaluate"
    /\ \/ /\ \E t \in PageTexts : body' = t
          /\ pc' = "extract"
       \/ /\ pc' = "finally_none"
          /\ UNCHANGED body
    /\ UNCHANGED <<cls, requested, n, airport_codes, data, data_payload, url,
                   outcome, result, attempt, failures, sleeps, status,
                   groups, ci, metars, nqueries, browser>>

\* metar_parts.index('KO61'): the first position of the token
index_of(parts, tok) == MinOf({i \in DOMAIN parts : parts[i] = tok})

\* split, index, join; the return statement's value waits for the finally clause
KO61_extract ==
    /\ pc = "extract"
    /\ IF ~body.valid \/ "KO61" \notin Range(body.entries)
       THEN /\ pc' = "finally_none"       \* AttributeError / ValueError, caught
            /\ UNCHANGED metars
       ELSE /\ pc' = "finally_metars"
            /\ metars' = MapPut(EmptyMap, "KO61",
                   [raw_text |-> Join(SubSeq(body.entries,
                                             index_of(body.entries, "KO61"),
                                             Len(body.entries)), " ")])
    /\ UNCHANGED <<cls, requested, n, airport_codes, data, data_payload, url,
                   outcome, result, attempt, failures, sleeps, status, body,
                   groups, ci, nqueries, browser>>

\* finally: await browser.close(), then the pending return completes
KO61_finally ==
    /\ pc \in {"finally_none", "finally_metars"}
    /\ browser' = "closed"
    /\ IF pc = "finally_metars"
       THEN /\ outcome' = "returned"
            /\ result' = metars
       ELSE /\ outcome' = "returned_none"
            /\ UNCHANGED result
    /\ pc' = "done"
    /\ UNCHANGED <<cls, requested, n, airport_codes, data, data_payload, url,
                   attempt, failures, sleeps, status, body, groups, ci, metars,
                   nqueries>>

----------------------------------------------------------------------------

Next ==
    \/ chunks_call
    \/ NOAA_init
    \/ SkyVector_init
    \/ BOM_init
    \/ IFIS_init
    \/ KO61_init
    \/ query_attempt_ok
    \/ query_attempt_fail
    \/ NOAA_get_metar_info
    \/ NOAA_next_chunk
    \/ NOAA_parse
    \/ NOAA_return
    \/ SkyVector_get_metar_info
    \/ SkyVector_parse
    \/ BOM_get_metar_info
    \/ IFIS_get_metar_info
    \/ KO61_launch
    \/ KO61_newPage
    \/ KO61_goto
    \/ KO61_waitForSelector
    \/ KO61_evaluate
    \/ KO61_extract
    \/ KO61_finally

Spec == Init /\ [][Next]_vars

----------------------------------------------------------------------------
(* Properties *)

CodeSetAdapters == {"NOAA", "NOAABackup", "SkyVector", "BOM", "IFIS"}
RetryingAdapters == {"NOAA", "NOAABackup", "SkyVector"}

\* C1: every key of a mapping returned by an adapter that takes a code set is
\* the upper-cased form of a code the adapter was constructed with (and, for
\* IFIS, a member of ACCEPTED_CODES), whatever the response contains.
C1_KeysWithinRequested ==
    (cls \in CodeSetAdapters /\ requested # <<>> /\ outcome = "returned") =>
        \A k \in DOMAIN result :
            /\ \E i \in DOMAIN requested : k = Upper(requested[i])
            /\ cls = "IFIS" => k \in ACCEPTED_CODES

\* C2: one _query call makes at most 10 attempts; it returns a response after
\* K failures and K + 1 attempts, K < 10; when all 10 attempts failed it
\* raises to the caller, without a response and without an 11th attempt.
C2_QueryAttempts ==
    (cls \in RetryingAdapters /\ attempt > 0) =>
        /\ attempt <= 10
        /\ failures <= 10
        /\ pc = "parse" => (failures < 10 /\ attempt = failures + 1)
        /\ pc = "query" => (failures < 10 /\ attempt = failures + 1)
        /\ failures = 10 <=> pc = "fetch_raised"
        /\ pc = "fetch_raised" =>
              (attempt = 10 /\ outcome = "raised" /\ DOMAIN result = {} /\ body = NoBody)

\* C2 witness: a _query call that failed on all ten attempts and raised
C2_Witness ==
    /\ cls \in RetryingAdapters
    /\ pc = "fetch_raised"
    /\ failures = 10
    /\ Len(sleeps) = 9

\* C3: a NOAA / NOAABackup retrieval is all-or-nothing: the loop never goes on
\* past a chunk whose response does not parse; once the retrieval has raised
\* (parse or terminal fetch failure) no mapping is returned, exactly the
\* chunks up to the failing one were requested, and nothing more can happen.
C3_AllOrNothing ==
    cls \in {"NOAA", "NOAABackup"} =>
        /\ (pc \in {"loop", "done"} /\ ci >= 1) => ~NOAA_parse_fails(body)
        /\ outcome = "returned" => (ci = Len(groups) /\ nqueries = Len(groups))
        /\ outcome = "raised" =>
              /\ DOMAIN result = {}
              /\ nqueries = ci
              /\ ~ENABLED Next

\* C3 witness: the second or a later chunk fails to parse while records of
\* earlier chunks are in metars and further chunks are still to be requested
C3_Witness ==
    /\ cls \in {"NOAA", "NOAABackup"}
    /\ pc = "parse_raised"
    /\ DOMAIN metars # {}
    /\ ci >= 2
    /\ ci < Len(groups)

\* C4: a KO61 call that launched the browser has closed it when control is
\* back at the caller, on every exit path.
C4_BrowserClosed ==
    (cls = "KO61" /\ outcome # "running" /\ browser # "none") => browser = "closed"

\* C5: KO61.get_metar_info never raises to its caller: every failure gives
\* None, and a mapping, with the single key KO61, is returned only when every
\* step succeeded.
C5_NeverRaises ==
    cls = "KO61" =>
        /\ outcome # "raised"
        /\ outcome = "returned" =>
              (DOMAIN result = {"KO61"} /\ body.valid /\ "KO61" \in Range(body.entries))

\* the positions of the requested codes that are in the allow-list
AcceptedAt == {i \in DOMAIN requested : requested[i] \in ACCEPTED_CODES}

\* C6: the station list of IFIS's data payload (MetLocations) is the requested
\* codes that are in ACCEPTED_CODES, all of them, in request order; the other
\* requested codes are dropped and construction does not raise.
C6_PayloadAllowListed ==
    (cls = "IFIS" /\ pc # "new") =>
        LET locs == Split(data_payload, " ")
        IN  /\ pc # "ctor_raised"
            /\ Len(locs) = Cardinality(AcceptedAt)
            /\ \A j \in DOMAIN locs :
                  /\ locs[j] \in ACCEPTED_CODES
                  /\ locs[j] \in Range(requested)
                  /\ locs[j] = requested[CHOOSE i \in AcceptedAt :
                                    Cardinality({m \in AcceptedAt : m <= i}) = j]

\* C6 witness: a request that mixes allow-listed and other codes
C6_Witness ==
    /\ cls = "IFIS"
    /\ pc = "ready"
    /\ \E i \in DOMAIN requested : requested[i] \notin ACCEPTED_CODES
    /\ Split(data_payload, " ") # <<>>

RECURSIVE Concat(_)
Concat(gs) == IF gs = <<>> THEN <<>> ELSE Head(gs) \o Concat(Tail(gs))

\* C7: chunks(l, n), n >= 1, yields ceil(len(l) / n) groups (none for the
\* empty list), each of n items except the last, which has 1..n items, and
\* the groups concatenated in order are l.
C7_Chunks ==
    (\/ cls = "chunks" /\ pc = "done"
     \/ cls \in {"NOAA", "NOAABackup"} /\ pc \notin {"new", "ready"}) =>
        /\ Len(groups) = (Len(requested) + n - 1) \div n
        /\ \A g \in DOMAIN groups :
              /\ g < Len(groups) => Len(groups[g]) = n
              /\ Len(groups[g]) >= 1
              /\ Len(groups[g]) <= n
        /\ Concat(groups) = requested

\* C7 witness: several groups, the last one shorter than n
C7_Witness ==
    /\ cls = "chunks"
    /\ pc = "done"
    /\ Len(groups) >= 2
    /\ Len(groups[Len(groups)]) < n

\* C8: constructing SkyVector raises exactly when at least one requested code
\* has no row in the coordinate dataset.
C8_FailsOnAnyUnknownCode ==
    (cls = "SkyVector" /\ requested # <<>> /\ pc # "new") =>
        (pc = "ctor_raised" <=>
            \E i \in DOMAIN requested :
                \A r \in DOMAIN Dataset : Dataset[r][1] # Upper(requested[i]))

Schedule == <<2000, 4000, 8000, 10000, 10000, 10000, 10000, 10000, 10000>>

\* C9 (amended): the wait after the k-th failed attempt, k = 1..9, is
\* min(2^k, 10) seconds: 2, 4, 8, 10, 10, ...
C9_WaitSchedule ==
    /\ Len(sleeps) <= 9
    /\ sleeps = SubSeq(Schedule, 1, Len(sleeps))
    /\ (cls \in RetryingAdapters /\ pc \in {"query", "parse"}) => Len(sleeps) = failures

\* C9 as stated: the wait after the k-th failed attempt is min(2^(k-1), 10)
\* seconds: 1, 2, 4, 8, 10, 10, ...
C9_Original ==
    \A k \in DOMAIN sleeps : sleeps[k] = 1000 * Min(Pow2(k - 1), 10)

\* C9 witness: all nine waits of a _query call have been slept
C9_Witness == Len(sleeps) = 9 /\ pc = "query"

\* C10: for every adapter that issues HTTP requests, a mapping is returned
\* only from a 2xx response, and a request that fails is retried: the
\* retrieval raises only when the 10th attempt failed.
C10_NoMappingFromFailure ==
    (cls \in CodeSetAdapters /\ requested # <<>>) =>
        /\ outcome = "returned" => (status >= 200 /\ status < 300)
        /\ pc = "fetch_raised" => attempt = 10

====
